---- MODULE Spec2Model ----
(***************************************************************************)
(* A model of src/main.py: the DanawaWebCrawler job (crawl_danawa,         *)
(* collect_basic_info) and its extraction pipeline                         *)
(* (extract_products_from_page, extract_single_product, get_product_name,  *)
(* get_price, get_product_url, clean_name), and the subscribers of its      *)
(* progress messages (notify_progress, websocket_endpoint).                *)
(*                                                                         *)
(* Text.  A Python str is a sequence of one-character strings.  The module *)
(* is written in ASCII, so the non-ASCII characters of the source are      *)
(* named:                                                                  *)
(*   "STAR" = ★   "WSTAR" = ☆   "k_won" = 원                               *)
(*   "k_teuk" "k_ga"                   = 특 가       (특가)                *)
(*   "k_mu" "k_ryo" "k_bae" "k_song"   = 무 료 배 송 (무료배송)            *)
(*   "k_i" "k_ben" "k_teu"             = 이 벤 트    (이벤트)              *)
(*   "k_sa" "k_yong" "k_ui" "k_ja"     = 사 용 의 자                       *)
(*   "u_asymp" = ≈  "u_mapsto" = ↦  "u_mnplus" = ∓  "u_plusmn" = ±         *)
(* and the job statuses are named                                          *)
(*   "pending" = 준비중  "running" = 시작  "completed" = 완료              *)
(*   "failed" = 실패     "errored" = 오류                                  *)
(***************************************************************************)
EXTENDS Integers, Sequences, FiniteSets, TLC

VARIABLES
    \* ---- the job (DanawaWebCrawler fields, src/main.py:40-44)
    status, progress, total_items, current_item, results,
    \* ---- the task running crawl_danawa / collect_basic_info
    pc,             \* position of the task in the code
    keyword_ok,     \* whether keyword.encode('utf-8') succeeds (line 95)
    max_pages,      \* the argument of crawl_danawa
    page,           \* the loop variable of collect_basic_info
    products,       \* the local list of collect_basic_info
    response,       \* the response of the page being processed
    returned,       \* the value crawl_danawa returned
    \* ---- history of the run (what the task did, in order)
    fetched,        \* the page numbers passed to session.get
    turns,          \* per fetched page: the response and what it contributed
    pauses,         \* the page numbers after which time.sleep ran
    messages,       \* the messages given to notify_progress
    raised,         \* where an exception was raised ("none" when none was)
    \* ---- the subscribers and the fan-out of notify_progress
    active_connections, \* the shared list of line 20, in list order
    joined,         \* the subscribers websocket_endpoint has appended so far
    pending,        \* notify_progress calls of the task not yet completed
    fanout,         \* the loop of notify_progress in progress
    delivered,      \* the loop of notify_progress the task has just left
    \* ---- the argument and the result of an extraction function called alone
    arg, out

jobVars   == <<status, progress, total_items, current_item, results>>
taskVars  == <<pc, keyword_ok, max_pages, page, products, response, returned>>
histVars  == <<fetched, turns, pauses, messages, raised>>
subVars   == <<active_connections, joined>>
fanVars   == <<subVars, pending, fanout, delivered>>
crawlVars == <<jobVars, taskVars, histVars, fanVars>>
callVars  == <<arg, out>>
vars      == <<crawlVars, callVars>>

-----------------------------------------------------------------------------
(* Text helpers: what the str methods and the regular expressions of the   *)
(* source compute.                                                          *)

Min(S) == CHOOSE x \in S : \A y \in S : x <= y

\* str.startswith
StartsWith(s, p) == Len(s) >= Len(p) /\ SubSeq(s, 1, Len(p)) = p

\* whether kw occurs in s at index i
OccursAt(s, i, kw) ==
    i >= 1 /\ i + Len(kw) - 1 <= Len(s) /\ SubSeq(s, i, i + Len(kw) - 1) = kw

\* the `in` operator on str
Contains(s, kw) == \E i \in 1..Len(s) : OccursAt(s, i, kw)

\* \s of re, and the characters str.strip() removes
IsSpace(c) == c \in {" ", "\t", "\n", "\f"}

\* `.` of re (no DOTALL): any character but a newline
IsDot(c) == c # "\n"

IsDigit(c) == c \in {"0", "1", "2", "3", "4", "5", "6", "7", "8", "9"}

RECURSIVE LStrip(_)
LStrip(s) == IF s # <<>> /\ IsSpace(Head(s)) THEN LStrip(Tail(s)) ELSE s

RECURSIVE RStrip(_)
RStrip(s) ==
    IF s # <<>> /\ IsSpace(s[Len(s)]) THEN RStrip(SubSeq(s, 1, Len(s) - 1)) ELSE s

\* str.strip()
Strip(s) == RStrip(LStrip(s))

RECURSIVE Flatten(_)
Flatten(ss) == IF ss = <<>> THEN <<>> ELSE Head(ss) \o Flatten(Tail(ss))

-----------------------------------------------------------------------------
(* clean_name, src/main.py:311-321                                         *)

\* The characters that end a named character reference in html.unescape:
\* its pattern is &(#[0-9]+;?|#[xX][0-9a-fA-F]+;?|[^\t\n\f <&#;]{1,32};?)
CharrefStop == {"\t", "\n", "\f", " ", "<", "&", "#", ";"}

\* The names of html.entities.html5 that can be written with the letters
\* a, m, p (the only ASCII letters of the texts of this model) and ';'.
Html5Names ==
    { <<"a","m","p">>, <<"a","m","p",";">>, <<"a","p",";">>,
      <<"m","a","p",";">>, <<"m","p",";">>, <<"p","m",";">> }

Html5(n) ==
    CASE n = <<"a","m","p">>      -> <<"&">>
      [] n = <<"a","m","p",";">>  -> <<"&">>
      [] n = <<"a","p",";">>      -> <<"u_asymp">>
      [] n = <<"m","a","p",";">>  -> <<"u_mapsto">>
      [] n = <<"m","p",";">>      -> <<"u_mnplus">>
      [] n = <<"p","m",";">>      -> <<"u_plusmn">>

\* The index of the last character of the reference that starts with the '&'
\* at index i (the longest run of non-stop characters, then an optional ';'),
\* or i when no reference starts there.  '#' (a numeric reference) is not a
\* character of the texts of this model.
CharrefEnd(s, i) ==
    LET ends == {e \in i + 1..Len(s) : \A t \in i + 1..e : s[t] \notin CharrefStop}
    IN  IF ends = {} THEN i
        ELSE LET e == CHOOSE x \in ends : \A y \in ends : y <= x
             IN  IF e < Len(s) /\ s[e + 1] = ";" THEN e + 1 ELSE e

\* replace_charref of html.unescape for a named reference n (no '&'):
\* the whole name, else its longest prefix of at least 2 characters that is a
\* name, else unchanged.
ReplaceCharref(n) ==
    IF n \in Html5Names THEN Html5(n)
    ELSE LET xs == {x \in 2..Len(n) - 1 : SubSeq(n, 1, x) \in Html5Names}
         IN  IF xs = {} THEN <<"&">> \o n
             ELSE LET x == CHOOSE a \in xs : \A b \in xs : b <= a
                  IN  Html5(SubSeq(n, 1, x)) \o SubSeq(n, x + 1, Len(n))

RECURSIVE UnescapeFrom(_, _)
UnescapeFrom(s, i) ==
    IF i > Len(s) THEN <<>>
    ELSE IF s[i] # "&" THEN <<s[i]>> \o UnescapeFrom(s, i + 1)
    ELSE LET e == CharrefEnd(s, i)
         IN  IF e = i THEN <<"&">> \o UnescapeFrom(s, i + 1)
             ELSE ReplaceCharref(SubSeq(s, i + 1, e)) \o UnescapeFrom(s, e + 1)

\* html.unescape(name), line 314
Unescape(s) == UnescapeFrom(s, 1)

\* The keywords of the bracket patterns of line 316, in order.
PromoKeywords ==
    << <<"k_mu", "k_ryo", "k_bae", "k_song">>,
       <<"k_teuk", "k_ga">>,
       <<"k_i", "k_ben", "k_teu">> >>

\* The index of the ']' that ends the match of \[.*?kw.*?\] starting at index
\* i of s, or 0 when the pattern does not match there.  Both .*? are lazy:
\* the first keyword position that can be completed, then the first ']'.
PromoMatchEnd(s, kw, i) ==
    IF s[i] # "[" THEN 0
    ELSE LET Ks(j) == {k \in j + Len(kw)..Len(s) :
                          /\ s[k] = "]"
                          /\ \A t \in j + Len(kw)..k - 1 : IsDot(s[t])}
             js == {j \in i + 1..Len(s) :
                          /\ OccursAt(s, j, kw)
                          /\ \A t \in i + 1..j - 1 : IsDot(s[t])
                          /\ Ks(j) # {}}
         IN  IF js = {} THEN 0 ELSE Min(Ks(Min(js)))

\* re.sub(r'\[.*?kw.*?\]', '', s): the non-overlapping matches, left to right
RECURSIVE SubPromoFrom(_, _, _)
SubPromoFrom(s, kw, i) ==
    IF i > Len(s) THEN <<>>
    ELSE LET k == PromoMatchEnd(s, kw, i)
         IN  IF k > 0 THEN SubPromoFrom(s, kw, k + 1)
             ELSE <<s[i]>> \o SubPromoFrom(s, kw, i + 1)

\* the loop of lines 318-319 over the three bracket patterns
RECURSIVE SubPromos(_, _)
SubPromos(s, n) ==
    IF n > Len(PromoKeywords) THEN s
    ELSE SubPromos(SubPromoFrom(s, PromoKeywords[n], 1), n + 1)

\* re.sub(r'★+', '', .) then re.sub(r'☆+', '', .)
SubStars(s) ==
    SelectSeq(SelectSeq(s, LAMBDA c : c # "STAR"), LAMBDA c : c # "WSTAR")

\* re.sub(r'\s+', ' ', s)
RECURSIVE CollapseSpace(_)
CollapseSpace(s) ==
    IF s = <<>> THEN <<>>
    ELSE IF IsSpace(Head(s)) THEN <<" ">> \o CollapseSpace(LStrip(s))
    ELSE <<Head(s)>> \o CollapseSpace(Tail(s))

clean_name(name) == Strip(CollapseSpace(SubStars(SubPromos(Unescape(name), 1))))

-----------------------------------------------------------------------------
(* The parsed page.  A listing node (item) and the elements inside it are   *)
(* records of what the selectors of the source look at: the tag, the class, *)
(* the parent's tag and class, and for an element its text and its title    *)
(* and href attributes ("" when absent).  An element has one class and a    *)
(* descendant selector "X Y" is decided on the element's parent.  The       *)
(* elements of an item, and the items of a page, are in document order.     *)

\* An optional value: <<>> is None, <<v>> is the value v.
None == <<>>
Some(v) == <<v>>

\* classes whose name contains "price" (for [class*="price"])
PriceClasses == {"price", "price_sect", "item_price", "product_price"}

\* whether the element or node e matches the CSS selector sel
Matches(sel, e) ==
    CASE sel = "ul.product_list li" ->
            e.tag = "li" /\ e.ptag = "ul" /\ e.pcls = "product_list"
      [] sel = ".main_prodlist li"  -> e.tag = "li" /\ e.pcls = "main_prodlist"
      [] sel = ".prod_list li"      -> e.tag = "li" /\ e.pcls = "prod_list"
      [] sel = "li.prod_item"       -> e.tag = "li" /\ e.cls = "prod_item"
      [] sel = ".item_wrap"         -> e.cls = "item_wrap"
      [] sel = ".product_item"      -> e.cls = "product_item"
      [] sel = "p.prod_name a"      ->
            e.tag = "a" /\ e.ptag = "p" /\ e.pcls = "prod_name"
      [] sel = "dt.prod_name a"     ->
            e.tag = "a" /\ e.ptag = "dt" /\ e.pcls = "prod_name"
      [] sel = "div.prod_name a"    ->
            e.tag = "a" /\ e.ptag = "div" /\ e.pcls = "prod_name"
      [] sel = "a.prod_name"        -> e.tag = "a" /\ e.cls = "prod_name"
      [] sel = ".prod_name a"       -> e.tag = "a" /\ e.pcls = "prod_name"
      [] sel = "a[title]"           -> e.tag = "a" /\ e.title # <<>>
      [] sel = ".item_name a"       -> e.tag = "a" /\ e.pcls = "item_name"
      [] sel = ".product_name a"    -> e.tag = "a" /\ e.pcls = "product_name"
      [] sel = "h3 a"               -> e.tag = "a" /\ e.ptag = "h3"
      [] sel = "h4 a"               -> e.tag = "a" /\ e.ptag = "h4"
      [] sel = "a"                  -> e.tag = "a"
      [] sel = "strong.num"         -> e.tag = "strong" /\ e.cls = "num"
      [] sel = "em.num_c"           -> e.tag = "em" /\ e.cls = "num_c"
      [] sel = ".price strong"      -> e.tag = "strong" /\ e.pcls = "price"
      [] sel = "span.price"         -> e.tag = "span" /\ e.cls = "price"
      [] sel = ".price_sect strong" -> e.tag = "strong" /\ e.pcls = "price_sect"
      [] sel = ".item_price strong" -> e.tag = "strong" /\ e.pcls = "item_price"
      [] sel = ".product_price strong" ->
            e.tag = "strong" /\ e.pcls = "product_price"
      [] sel = ".price .num"        -> e.cls = "num" /\ e.pcls = "price"
      [] sel = "em[class*=price]"   -> e.tag = "em" /\ e.cls \in PriceClasses
      [] sel = "span[class*=price]" -> e.tag = "span" /\ e.cls \in PriceClasses

\* soup.select(sel) / item.select(sel): the matching ones, in document order
Select(es, sel) == SelectSeq(es, LAMBDA e : Matches(sel, e))

\* item.select_one(sel): the first match, or None
SelectOne(item, sel) ==
    LET ms == Select(item.elems, sel) IN IF ms = <<>> THEN None ELSE Some(Head(ms))

\* item.get_text(): the text of the item's elements, in document order
ItemText(item) == Flatten([i \in 1..Len(item.elems) |-> item.elems[i].text])

-----------------------------------------------------------------------------
(* get_product_name, src/main.py:213-248                                    *)

NameSelectors ==
    << "p.prod_name a", "dt.prod_name a", "div.prod_name a", "a.prod_name",
       ".prod_name a", "a[title]", ".item_name a", ".product_name a",
       "h3 a", "h4 a" >>

NameTextMin == 3
LinkTextMin == 10

\* lines 242-246: the first link whose text is long and holds no 원
RECURSIVE NameFromLinks(_)
NameFromLinks(links) ==
    IF links = <<>> THEN None
    ELSE LET text == Strip(Head(links).text)
         IN  IF text # <<>> /\ Len(text) > LinkTextMin /\ ~Contains(text, <<"k_won">>)
             THEN Some(clean_name(text))
             ELSE NameFromLinks(Tail(links))

\* lines 228-239, from the n-th selector on, then lines 242-248
RECURSIVE NameFromSelectors(_, _)
NameFromSelectors(item, n) ==
    IF n > Len(NameSelectors) THEN NameFromLinks(Select(item.elems, "a"))
    ELSE LET found == SelectOne(item, NameSelectors[n])
         IN  IF found = None THEN NameFromSelectors(item, n + 1)
             ELSE LET text  == Strip(found[1].text)
                      title == Strip(found[1].title)
                  IN  IF text # <<>> /\ Len(text) > NameTextMin
                      THEN Some(clean_name(text))
                      ELSE IF title # <<>> /\ Len(title) > NameTextMin
                      THEN Some(clean_name(title))
                      ELSE NameFromSelectors(item, n + 1)

get_product_name(item) == NameFromSelectors(item, 1)

-----------------------------------------------------------------------------
(* get_price, src/main.py:250-288                                           *)

PriceSelectors ==
    << "strong.num", "em.num_c", ".price strong", "span.price",
       ".price_sect strong", ".item_price strong", ".product_price strong",
       ".price .num", "em[class*=price]", "span[class*=price]" >>

MinPriceDigits == 3
MinPrice == 1000
MaxPrice == 10000000

DigitValue(c) ==
    CASE c = "0" -> 0 [] c = "1" -> 1 [] c = "2" -> 2 [] c = "3" -> 3
      [] c = "4" -> 4 [] c = "5" -> 5 [] c = "6" -> 6 [] c = "7" -> 7
      [] c = "8" -> 8 [] c = "9" -> 9

\* int(digits) for a non-empty string of digits.  A Python int is unbounded
\* and the source only compares the value with the price range, so a value
\* already above MaxPrice is kept as it is when more digits follow: it stays
\* above MaxPrice, as the number does.
RECURSIVE ParseInt(_)
ParseInt(ds) ==
    IF ds = <<>> THEN 0
    ELSE LET v == ParseInt(SubSeq(ds, 1, Len(ds) - 1))
         IN  IF v > MaxPrice THEN v ELSE 10 * v + DigitValue(ds[Len(ds)])

\* re.sub(r'[^\d]', '', text), and match.replace(',', '') on a [\d,]+ match
Digits(text) == SelectSeq(text, IsDigit)

\* the range test with a lower bound of 100
InPriceRangeFrom100(price) == 100 <= price /\ price <= MaxPrice

\* the range test of lines 272 and 283
InPriceRange(price) == MinPrice <= price /\ price <= MaxPrice

\* re.findall(r'([\d,]+)\s*원', s): the captured groups from index i on.
\* [\d,]+ is greedy, so a match takes a whole run of digits and commas, and
\* it needs 원 right after the run and any whitespace.
RECURSIVE WonMatchesFrom(_, _)
WonMatchesFrom(s, i) ==
    IF i > Len(s) THEN <<>>
    ELSE IF ~(IsDigit(s[i]) \/ s[i] = ",") THEN WonMatchesFrom(s, i + 1)
    ELSE LET e == Min({x \in i..Len(s) :
                          x = Len(s) \/ ~(IsDigit(s[x + 1]) \/ s[x + 1] = ",")})
             w == Min({x \in e + 1..Len(s) + 1 : x = Len(s) + 1 \/ ~IsSpace(s[x])})
         IN  IF w <= Len(s) /\ s[w] = "k_won"
             THEN <<SubSeq(s, i, e)>> \o WonMatchesFrom(s, w + 1)
             ELSE WonMatchesFrom(s, i + 1)

\* lines 280-286: the first match that parses (int('') raises) and is in range
RECURSIVE PriceFromMatches(_)
PriceFromMatches(ms) ==
    IF ms = <<>> THEN 0
    ELSE LET ds == Digits(Head(ms))
         IN  IF ds # <<>> /\ InPriceRange(ParseInt(ds)) THEN ParseInt(ds)
             ELSE PriceFromMatches(Tail(ms))

\* lines 265-275, from the n-th selector on, then lines 278-288
RECURSIVE PriceFromSelectors(_, _)
PriceFromSelectors(item, n) ==
    IF n > Len(PriceSelectors)
    THEN PriceFromMatches(WonMatchesFrom(ItemText(item), 1))
    ELSE LET found == SelectOne(item, PriceSelectors[n])
         IN  IF found = None THEN PriceFromSelectors(item, n + 1)
             ELSE LET price_text == Digits(found[1].text)
                  IN  IF /\ price_text # <<>>
                         /\ Len(price_text) >= MinPriceDigits
                         /\ InPriceRange(ParseInt(price_text))
                      THEN ParseInt(price_text)
                      ELSE PriceFromSelectors(item, n + 1)

get_price(item) == PriceFromSelectors(item, 1)

-----------------------------------------------------------------------------
(* get_product_url, src/main.py:290-309                                     *)

UrlSelectors == << "p.prod_name a", "dt.prod_name a", "a.prod_name" >>

Scheme == <<"h","t","t","p","s",":">>
Origin ==
    <<"h","t","t","p","s",":","/","/","w","w","w",".","d","a","n","a","w","a",
      ".","c","o","m">>

\* lines 303-307 with the two tests in the other order
ResolveHrefRootFirst(href) ==
    IF StartsWith(href, <<"/">>) THEN Origin \o href
    ELSE IF StartsWith(href, <<"/", "/">>) THEN Scheme \o href
    ELSE href

\* lines 303-307
ResolveHref(href) ==
    IF StartsWith(href, <<"/", "/">>) THEN Scheme \o href
    ELSE IF StartsWith(href, <<"/">>) THEN Origin \o href
    ELSE href

\* lines 298-309, from the n-th selector on
RECURSIVE UrlFromSelectors(_, _)
UrlFromSelectors(item, n) ==
    IF n > Len(UrlSelectors) THEN <<>>
    ELSE LET found == SelectOne(item, UrlSelectors[n])
         IN  IF found # None /\ found[1].href # <<>>
             THEN ResolveHref(found[1].href)
             ELSE UrlFromSelectors(item, n + 1)

get_product_url(item) == UrlFromSelectors(item, 1)

-----------------------------------------------------------------------------
(* extract_single_product, src/main.py:194-211                              *)

\* urllib.parse.quote of one character: the unreserved characters and '/'
\* are kept, any other is the %XX of its UTF-8 bytes.
QuoteChar(c) ==
    CASE c = "STAR"     -> <<"%","E","2","%","9","8","%","8","5">>
      [] c = "WSTAR"    -> <<"%","E","2","%","9","8","%","8","6">>
      [] c = "k_won"    -> <<"%","E","C","%","9","B","%","9","0">>
      [] c = "k_teuk"   -> <<"%","E","D","%","8","A","%","B","9">>
      [] c = "k_ga"     -> <<"%","E","A","%","B","0","%","8","0">>
      [] c = "k_mu"     -> <<"%","E","B","%","A","C","%","B","4">>
      [] c = "k_ryo"    -> <<"%","E","B","%","A","3","%","8","C">>
      [] c = "k_bae"    -> <<"%","E","B","%","B","0","%","B","0">>
      [] c = "k_song"   -> <<"%","E","C","%","8","6","%","A","1">>
      [] c = "k_i"      -> <<"%","E","C","%","9","D","%","B","4">>
      [] c = "k_ben"    -> <<"%","E","B","%","B","2","%","A","4">>
      [] c = "k_teu"    -> <<"%","E","D","%","8","A","%","B","8">>
      [] c = "k_sa"     -> <<"%","E","C","%","8","2","%","A","C">>
      [] c = "k_yong"   -> <<"%","E","C","%","9","A","%","A","9">>
      [] c = "k_ui"     -> <<"%","E","C","%","9","D","%","9","8">>
      [] c = "k_ja"     -> <<"%","E","C","%","9","E","%","9","0">>
      [] c = "u_asymp"  -> <<"%","E","2","%","8","9","%","8","8">>
      [] c = "u_mapsto" -> <<"%","E","2","%","8","6","%","A","6">>
      [] c = "u_mnplus" -> <<"%","E","2","%","8","8","%","9","3">>
      [] c = "u_plusmn" -> <<"%","C","2","%","B","1">>
      [] c = " "        -> <<"%","2","0">>
      [] c = "["        -> <<"%","5","B">>
      [] c = "]"        -> <<"%","5","D">>
      [] c = "&"        -> <<"%","2","6">>
      [] c = ";"        -> <<"%","3","B">>
      [] c = ","        -> <<"%","2","C">>
      [] c = "\t"       -> <<"%","0","9">>
      [] c = "\n"       -> <<"%","0","A">>
      [] c = "\f"       -> <<"%","0","C">>
      [] OTHER          -> <<c>>

\* quote(name)
Quote(s) == Flatten([i \in 1..Len(s) |-> QuoteChar(s[i])])

CoupangSearch ==
    <<"h","t","t","p","s",":","/","/","w","w","w",".","c","o","u","p","a","n",
      "g",".","c","o","m","/","n","p","/","s","e","a","r","c","h","?","q","=">>

NameMin == 3

\* line 197: `not name or len(name.strip()) < 3`, for a name that is not None
NameTooShort(name) == name = <<>> \/ Len(Strip(name)) < NameMin

\* The product of one listing node: None, or the record of lines 204-209.
extract_single_product(item) ==
    LET name == get_product_name(item)
    IN  IF name = None \/ NameTooShort(name[1]) THEN None
        ELSE LET price       == get_price(item)
                 product_url == get_product_url(item)
             IN  IF name[1] # <<>> /\ price > 0
                 THEN Some([ name               |-> Strip(name[1]),
                             price              |-> price,
                             product_url        |-> product_url,
                             coupang_search_url |->
                                 CoupangSearch \o Quote(Strip(name[1])) ])
                 ELSE None

-----------------------------------------------------------------------------
(* extract_products_from_page, src/main.py:149-192                          *)

ListSelectors ==
    << "ul.product_list li", ".main_prodlist li", ".prod_list li",
       "li.prod_item", ".item_wrap", ".product_item" >>

MaxItems == 50
MaxProducts == 40

\* lines 163-170: the nodes of the first selector, from the n-th on, that
\* selects any; the empty list when none does
RECURSIVE ItemsFromSelectors(_, _)
ItemsFromSelectors(soup, n) ==
    IF n > Len(ListSelectors) THEN <<>>
    ELSE LET items == Select(soup, ListSelectors[n])
         IN  IF items # <<>> THEN items ELSE ItemsFromSelectors(soup, n + 1)

\* the loop of lines 166-170 without its break: the last selector that
\* selects any node wins
RECURSIVE ItemsFromLastSelector(_, _, _)
ItemsFromLastSelector(soup, n, items) ==
    IF n > Len(ListSelectors) THEN items
    ELSE LET found == Select(soup, ListSelectors[n])
         IN  ItemsFromLastSelector(soup, n + 1, IF found # <<>> THEN found ELSE items)

LocateItemsLastMatch(soup) == ItemsFromLastSelector(soup, 1, <<>>)

LocateItems(soup) == ItemsFromSelectors(soup, 1)

\* lines 181-190: an item on which extraction raises is skipped (line 188),
\* and the loop stops at MaxProducts products
RECURSIVE ExtractLoop(_, _)
ExtractLoop(items, found) ==
    IF items = <<>> THEN found
    ELSE LET product == IF Head(items).raises THEN None
                        ELSE extract_single_product(Head(items))
             ps      == found \o product
         IN  IF product # None /\ Len(ps) >= MaxProducts THEN ps
             ELSE ExtractLoop(Tail(items), ps)

extract_products_from_page(soup) ==
    LET items == LocateItems(soup)
    IN  IF items = <<>> THEN <<>>
        ELSE ExtractLoop(SubSeq(items, 1, Min({Len(items), MaxItems})), <<>>)

-----------------------------------------------------------------------------
(* The inputs of the model: texts, elements, listing nodes and pages.       *)

MaxNameLen == 5     \* longest text given to clean_name on its own
MaxElems == 2       \* most elements of a listing node given to an extractor
MaxNodes == 2       \* most nodes of a page given to extract_products_from_page
MaxPages == 3       \* largest max_pages of a crawl

\* "[무료배송] 사무용 의자★★★", cleaned "사무용 의자"
TextChair ==
    <<"[","k_mu","k_ryo","k_bae","k_song","]"," ","k_sa","k_mu","k_yong"," ",
      "k_ui","k_ja","STAR","STAR","STAR">>
TextStar3   == <<"STAR","m","a","p">>                   \* cleaned "map"
TextPromo2  == <<"[","k_teuk","k_ga","]","p","a">>      \* cleaned "pa"
TextShort   == <<"a","m">>
TextStars   == <<"STAR","STAR","WSTAR","STAR">>         \* cleaned ""
TextPlain   == <<" ","p","a","m"," "," ","m","a","p","\n">>
TextLink    == <<"m","a","p"," ","p","a","m"," ","m","a","p"," ","a">>
TextLinkWon == <<"p","a","m"," ","1","2",",","5","0","0"," ","k_won"," ","m">>
TextEntity  == <<"p","&","a","m","p",";","a","m","p",";","m">>  \* "p&amp;amp;m"

HrefProto == <<"/","/","m",".","a","/","p">>
HrefRoot  == <<"/","p","/","1">>
HrefAbs   == <<"h","t","t","p","s",":","/","/","m",".","a","/","p">>
HrefRel   == <<"p",".","a">>

Link(ptag, pcls, cls, text, title, href) ==
    [tag |-> "a", cls |-> cls, ptag |-> ptag, pcls |-> pcls,
     text |-> text, title |-> title, href |-> href]

Tagged(tag, cls, ptag, pcls, text) ==
    [tag |-> tag, cls |-> cls, ptag |-> ptag, pcls |-> pcls,
     text |-> text, title |-> <<>>, href |-> <<>>]

NameChair  == Link("p", "prod_name", "", TextChair, <<>>, HrefProto)
NameStar3  == Link("p", "prod_name", "", TextStar3, <<>>, HrefRoot)
NameTitled == Link("p", "prod_name", "", TextShort, TextPlain, <<>>)
NamePromo2 == Link("div", "", "prod_name", TextPromo2, <<>>, HrefAbs)
NameStars  == Link("dt", "prod_name", "", TextStars, <<>>, HrefRel)
NameHead   == Link("h3", "", "", TextEntity, <<>>, HrefAbs)
LinkLong   == Link("div", "", "", TextLink, <<>>, HrefRoot)
LinkWon    == Link("div", "", "", TextLinkWon, <<>>, <<>>)

Price500     == Tagged("strong", "num", "p", "price_sect", <<"5","0","0">>)
Price999999  == Tagged("em", "num_c", "p", "", <<"9","9","9","9","9","9">>)
Price1000Won == Tagged("strong", "", "p", "price", <<"1",",","0","0","0","k_won">>)
PriceOver    == Tagged("span", "price", "div", "",
                       <<"1","0","0","0","0","0","0","1">>)
PriceMax     == Tagged("strong", "num", "p", "",
                       <<"1","0",",","0","0","0",",","0","0","0">>)
Price99      == Tagged("em", "item_price", "div", "", <<"9","9">>)
TextWon      == Tagged("span", "", "div", "", <<"1","2",",","5","0","0"," ","k_won">>)
TextCommaWon == Tagged("span", "", "div", "", <<",","k_won"," ","9","9","9","k_won">>)

ElemSet ==
    { NameChair, NameStar3, NameTitled, NamePromo2, NameStars, NameHead,
      LinkLong, LinkWon,
      Price500, Price999999, Price1000Won, PriceOver, PriceMax, Price99,
      TextWon, TextCommaWon }

SeqsUpTo(S, n) == UNION {[1..k -> S] : k \in 0..n}

\* a listing node
Node(tag, cls, ptag, pcls, elems) ==
    [tag |-> tag, cls |-> cls, ptag |-> ptag, pcls |-> pcls,
     elems |-> elems, raises |-> FALSE]

\* the listing nodes given to the extractors of one node
Items == {Node("li", "prod_item", "ul", "product_list", es) :
              es \in SeqsUpTo(ElemSet, MaxElems)}

ElemsA    == <<NameChair, Price999999>>     \* accepted
ElemsB    == <<NameHead, Price1000Won>>     \* accepted
ElemsC    == <<NameTitled, PriceMax>>       \* accepted
ElemsZero == <<NameChair, Price500>>        \* price 0: rejected

\* the listing nodes of the pages: each shape a selector looks for, and one
\* shape none looks for
NodeShapes ==
    { <<"li", "prod_item", "ul", "product_list">>,
      <<"li", "", "ul", "main_prodlist">>,
      <<"li", "", "ul", "prod_list">>,
      <<"li", "prod_item", "ol", "">>,
      <<"div", "item_wrap", "div", "">>,
      <<"div", "product_item", "div", "">>,
      <<"div", "banner", "div", "">> }

NodeSet ==
    {Node(sh[1], sh[2], sh[3], sh[4], es) :
        sh \in NodeShapes, es \in {ElemsA, ElemsB, ElemsZero}}
    \cup {[Node("li", "prod_item", "ul", "product_list", ElemsA)
              EXCEPT !.raises = TRUE]}

Soups == SeqsUpTo(NodeSet, MaxNodes)

ProdA    == Node("li", "prod_item", "ul", "product_list", ElemsA)
ProdB    == Node("li", "prod_item", "ul", "product_list", ElemsB)
ProdC    == Node("li", "prod_item", "ul", "product_list", ElemsC)
ProdZero == Node("li", "prod_item", "ul", "product_list", ElemsZero)
Banner   == Node("div", "banner", "div", "", ElemsA)

\* the pages a fetch of the crawl can return, by name
SoupNames == {"none", "rejected", "five", "many", "long"}

Soup(name) ==
    CASE name = "none"     -> <<Banner>>
      [] name = "rejected" -> <<ProdZero, ProdZero>>
      [] name = "five"     -> <<ProdA, ProdZero, ProdB, ProdZero, ProdA>>
      [] name = "many"     -> [i \in 1..MaxProducts + 5 |-> ProdC]
      [] name = "long"     ->
            [i \in 1..MaxItems + 5 |-> IF i <= 12 THEN ProdZero ELSE ProdC]

\* line 125 on each of the pages
PageProducts == [n \in SoupNames |-> extract_products_from_page(Soup(n))]

\* find('title') of line 130
HasTitle(name) == name # "rejected"

-----------------------------------------------------------------------------
(* The crawl: crawl_danawa (src/main.py:61-85) running collect_basic_info   *)
(* (src/main.py:87-147) as one task.  An action is the code the task runs   *)
(* between two of its suspension points.                                    *)

HttpOk == 200
MinHtmlLength == 1000

Resp(exc, status_code, html_length, soup) ==
    [exc |-> exc, status_code |-> status_code, html_length |-> html_length,
     soup |-> soup]

NoResponse == Resp("none", 0, 0, "none")

\* a session.get that neither returns nor raises
FetchNeverReturns == {}

\* What session.get and the processing of its response can do: exc names
\* the call that raises ("fetch": session.get, "decode": response.text,
\* "parse": BeautifulSoup, "extract": extract_products_from_page), or "none".
Responses ==
    { Resp("fetch", 0, 0, "none"),
      Resp("none", 503, 5000, "five"),
      Resp("decode", 200, 0, "none"),
      Resp("none", 200, 999, "five"),
      Resp("parse", 200, 1000, "none"),
      Resp("extract", 200, 1000, "five") }
    \cup {Resp("none", 200, 1000, n) : n \in SoupNames}

\* notify_progress (lines 46-59) called once for each of tags, in order, with
\* the job's fields as they are then
RECURSIVE Notify(_, _, _, _)
Notify(log, st, total, tags) ==
    IF tags = <<>> THEN log
    ELSE Notify(Append(log, [status |-> st, progress |-> progress,
                             current_item |-> current_item,
                             total_items |-> total, message |-> Head(tags)]),
                st, total, Tail(tags))

\* no loop of notify_progress is in progress
NoFanout ==
    [cursor |-> 0, sends |-> <<>>, members |-> <<>>, listeners |-> {},
     quiet |-> TRUE]

\* line 48 reached: the loop over conns begins.  cursor is the number of
\* list positions the iterator has passed, sends what was sent to whom and
\* whether the send succeeded; members is the list as it is now, listeners
\* the subscribers on it ever since, quiet whether the list is unchanged.
Fresh(conns) ==
    [cursor |-> 0, sends |-> <<>>, members |-> conns,
     listeners |-> {conns[i] : i \in 1..Len(conns)}, quiet |-> TRUE]

\* the calls of notify_progress (lines 46-59) an action makes, one for each
\* of tags, in order.  With no subscriber the loop of line 48 has no turn and
\* the calls return at once; with subscribers the task is suspended at each
\* send_text of line 50 (Deliver, FanOutDone) before it runs on.
Publish(st, total, tags) ==
    /\ messages' = Notify(messages, st, total, tags)
    /\ IF active_connections = <<>>
       THEN pending' = 0 /\ fanout' = NoFanout
       ELSE pending' = Len(tags) /\ fanout' = Fresh(active_connections)
    /\ delivered' = <<>>

\* an action of the task that calls notify_progress nowhere
Silent == UNCHANGED <<pending, fanout>> /\ delivered' = <<>>

\* the same places with continue and break exchanged
OnHttpErrorBreaks        == "break"
OnNoProductsContinues    == "continue"
OnPageExceptionContinues == "continue"

\* what the loop does next where the code says continue or break
OnHttpError     == "continue"   \* line 108
OnSmallHtml     == "continue"   \* line 120
OnNoProducts    == "break"      \* line 133
OnPageException == "break"      \* line 145

\* continue taken as another turn of the loop for the same page
GotoSamePage(control) ==
    IF control = "continue"
    THEN page' = page /\ pc' = "page_begin"
    ELSE page' = page /\ pc' = "collected"

Goto(control) ==
    IF control = "continue"
    THEN page' = page + 1 /\ pc' = "page_begin"
    ELSE page' = page /\ pc' = "collected"

Turn(outcome, got) ==
    [page |-> page, response |-> response, outcome |-> outcome, got |-> got]

\* the page's records put before the accumulated ones
ExtendInFront(ps, page_products) == page_products \o ps

\* line 135
Extend(ps, page_products) == ps \o page_products

\* the status without the test of line 70
FinalStatusAlwaysCompleted(basic_products) == "completed"

\* lines 70-76: the status crawl_danawa ends with
FinalStatus(basic_products) ==
    IF basic_products = <<>> THEN "failed" ELSE "completed"

\* crawl_danawa run on a job whether or not it has run before
StartAgain ==
    /\ pc \in {"pending", "done"}
    /\ pending = 0
    /\ status' = "running"
    /\ Publish("running", total_items, <<"search_start">>)
    /\ products' = <<>>
    /\ page' = 1
    /\ pc' = "page_begin"
    /\ UNCHANGED <<progress, total_items, current_item, results, keyword_ok,
                   max_pages, response, returned, fetched, turns, pauses,
                   raised, callVars, subVars>>

\* lines 63-68, to the first suspension point of collect_basic_info
Start ==
    /\ pc = "pending"
    /\ pending = 0
    /\ status' = "running"
    /\ Publish("running", total_items, <<"search_start">>)
    /\ products' = <<>>
    /\ page' = 1
    /\ pc' = "page_begin"
    /\ UNCHANGED <<progress, total_items, current_item, results, keyword_ok,
                   max_pages, response, returned, fetched, turns, pauses,
                   raised, callVars, subVars>>

\* lines 91-92, and lines 95-96 when the keyword can be encoded
PagePrepare ==
    /\ pc = "page_begin"
    /\ pending = 0
    /\ page <= max_pages
    /\ Publish(status, total_items, <<"prepare">>)
    /\ pc' = IF keyword_ok THEN "request" ELSE "encode"
    /\ UNCHANGED <<jobVars, keyword_ok, max_pages, page, products, response,
                   returned, fetched, turns, pauses, raised, callVars, subVars>>

\* line 95 when keyword.encode raises (outside the try of line 98), then
\* the handler of crawl_danawa, lines 82-85
PagePrepareRaises ==
    /\ pc = "encode"
    /\ pending = 0
    /\ raised' = "encode"
    /\ status' = "errored"
    /\ Publish("errored", total_items, <<"error">>)
    /\ returned' = <<>>
    /\ pc' = "done"
    /\ UNCHANGED <<progress, total_items, current_item, results, keyword_ok,
                   max_pages, page, products, response, fetched, turns,
                   pauses, callVars, subVars>>

\* lines 99-102, and lines 143-145 when session.get raises
Request ==
    /\ pc = "request"
    /\ pending = 0
    /\ \E resp \in Responses :
        /\ response' = resp
        /\ fetched' = Append(fetched, page)
        /\ IF resp.exc = "fetch"
           THEN /\ raised' = "fetch"
                /\ Publish(status, total_items,
                                      <<"request", "page_error">>)
                /\ turns' = Append(turns, [page |-> page, response |-> resp,
                                           outcome |-> "error", got |-> <<>>])
                /\ Goto(OnPageException)
           ELSE /\ Publish(status, total_items, <<"request">>)
                /\ pc' = "received"
                /\ UNCHANGED <<page, turns, raised>>
    /\ UNCHANGED <<jobVars, keyword_ok, max_pages, products, returned, pauses,
                   callVars, subVars>>

\* lines 104-120, and lines 143-145 when response.text raises
Received ==
    /\ pc = "received"
    /\ pending = 0
    /\ IF response.status_code # HttpOk
       THEN /\ Publish(status, total_items,
                                  <<"received", "http_error">>)
            /\ turns' = Append(turns, Turn("skip", <<>>))
            /\ Goto(OnHttpError)
            /\ UNCHANGED raised
       ELSE IF response.exc = "decode"
       THEN /\ raised' = "decode"
            /\ Publish(status, total_items,
                                  <<"received", "analyze", "page_error">>)
            /\ turns' = Append(turns, Turn("error", <<>>))
            /\ Goto(OnPageException)
       ELSE IF response.html_length < MinHtmlLength
       THEN /\ Publish(status, total_items,
                                  <<"received", "analyze", "html_size", "too_small">>)
            /\ turns' = Append(turns, Turn("skip", <<>>))
            /\ Goto(OnSmallHtml)
            /\ UNCHANGED raised
       ELSE /\ Publish(status, total_items,
                                  <<"received", "analyze", "html_size">>)
            /\ pc' = "parse"
            /\ UNCHANGED <<page, turns, raised>>
    /\ UNCHANGED <<jobVars, keyword_ok, max_pages, products, response, returned,
                   fetched, pauses, callVars, subVars>>

\* lines 122-141, and lines 143-145 when BeautifulSoup or
\* extract_products_from_page raises
Extract ==
    /\ pc = "parse"
    /\ pending = 0
    /\ IF response.exc \in {"parse", "extract"}
       THEN /\ raised' = response.exc
            /\ Publish(status, total_items,
                                  IF response.exc = "parse" THEN <<"page_error">>
                                  ELSE <<"extracting", "page_error">>)
            /\ turns' = Append(turns, Turn("error", <<>>))
            /\ Goto(OnPageException)
            /\ UNCHANGED <<products, pauses>>
       ELSE LET page_products == PageProducts[response.soup]
            IN  IF page_products = <<>>
                THEN /\ Publish(status, total_items,
                                           IF HasTitle(response.soup)
                                           THEN <<"extracting", "none_found", "page_title">>
                                           ELSE <<"extracting", "none_found">>)
                     /\ turns' = Append(turns, Turn("halt", <<>>))
                     /\ Goto(OnNoProducts)
                     /\ UNCHANGED <<products, pauses, raised>>
                ELSE /\ products' = Extend(products, page_products)
                     /\ turns' = Append(turns, Turn("extend", page_products))
                     /\ Publish(status, total_items,
                                           IF page < max_pages
                                           THEN <<"extracting", "found", "waiting">>
                                           ELSE <<"extracting", "found">>)
                     /\ pauses' = IF page < max_pages THEN Append(pauses, page)
                                  ELSE pauses
                     /\ page' = page + 1
                     /\ pc' = "page_begin"
                     /\ UNCHANGED raised
    /\ UNCHANGED <<jobVars, keyword_ok, max_pages, response, returned, fetched,
                   callVars, subVars>>

\* the loop of line 91 is exhausted: collect_basic_info returns (line 147)
LoopExit ==
    /\ pc = "page_begin"
    /\ pending = 0
    /\ page > max_pages
    /\ pc' = "collected"
    /\ Silent
    /\ UNCHANGED <<jobVars, keyword_ok, max_pages, page, products, response,
                   returned, histVars, callVars, subVars>>

\* lines 70-73
FinishFailed ==
    /\ pc = "collected"
    /\ pending = 0
    /\ FinalStatus(products) = "failed"
    /\ status' = "failed"
    /\ Publish("failed", total_items, <<"not_found">>)
    /\ returned' = <<>>
    /\ pc' = "done"
    /\ UNCHANGED <<progress, total_items, current_item, results, keyword_ok,
                   max_pages, page, products, response, fetched, turns,
                   pauses, raised, callVars, subVars>>

\* the count left as it is
TotalItemsKept(basic_products) == total_items

\* line 75
TotalItems(basic_products) == Len(basic_products)

\* lines 75-76: the count and the status are set; the task runs on to line
\* 77 without being suspended
Completing ==
    /\ pc = "collected"
    /\ pending = 0
    /\ FinalStatus(products) = "completed"
    /\ total_items' = TotalItems(products)
    /\ status' = "completed"
    /\ pc' = "completing"
    /\ Silent
    /\ UNCHANGED <<progress, current_item, results, keyword_ok, max_pages,
                   page, products, response, returned, histVars, callVars,
                   subVars>>

\* lines 77-80
FinishCompleted ==
    /\ pc = "completing"
    /\ pending = 0
    /\ results' = products
    /\ Publish(status, total_items, <<"complete">>)
    /\ returned' = products
    /\ pc' = "done"
    /\ UNCHANGED <<status, progress, total_items, current_item, keyword_ok,
                   max_pages, page, products, response, fetched, turns,
                   pauses, raised, callVars, subVars>>

NoOut == [fn |-> "none", val |-> <<>>]

\* DanawaWebCrawler.__init__ (lines 40-44) and a task not yet started
JobInit ==
    /\ status = "pending"
    /\ progress = 0
    /\ total_items = 0
    /\ current_item = 0
    /\ results = <<>>
    /\ pc = "pending"
    /\ page = 0
    /\ products = <<>>
    /\ response = NoResponse
    /\ returned = <<>>
    /\ fetched = <<>>
    /\ turns = <<>>
    /\ pauses = <<>>
    /\ messages = <<>>
    /\ raised = "none"
    /\ pending = 0
    /\ fanout = NoFanout
    /\ delivered = <<>>

\* no websocket has connected (line 20)
NoSubscribers ==
    /\ active_connections = <<>>
    /\ joined = {}

Init ==
    /\ JobInit
    /\ NoSubscribers
    /\ keyword_ok \in BOOLEAN
    /\ max_pages \in 0..MaxPages
    /\ arg = <<>>
    /\ out = NoOut

Next ==
    \/ Start
    \/ PagePrepare
    \/ PagePrepareRaises
    \/ Request
    \/ Received
    \/ Extract
    \/ LoopExit
    \/ FinishFailed
    \/ Completing
    \/ FinishCompleted

Spec == Init /\ [][Next]_vars

-----------------------------------------------------------------------------
(* The crawl with subscribers: websocket_endpoint (src/main.py:1086-1096)   *)
(* appends a websocket to active_connections when it connects and removes   *)
(* it when it disconnects; notify_progress (src/main.py:46-59) walks the     *)
(* list and is suspended at each send_text, where the other tasks run.       *)

\* the websockets that can connect; each connects once and disconnects once
Subscribers == {"s1", "s2"}

\* the largest max_pages of a crawl with subscribers
LivePages == 1

\* list.remove of line 1096
Remove(conns, s) == SelectSeq(conns, LAMBDA c : c # s)

\* the loop of notify_progress left at the first failed send
OnSendFailureBreaks == "break"

\* lines 58-59: except: pass
OnSendFailure == "pass"

\* the loop of line 48 is over for the message in hand: notify_progress
\* returns and the task runs on, into its next notify_progress call if the
\* action has one
FanOutEnds(f) ==
    /\ delivered' = <<[msg |-> Len(messages) - pending + 1, fan |-> f]>>
    /\ pending' = pending - 1
    /\ fanout' = IF pending > 1 THEN Fresh(active_connections) ELSE NoFanout

\* lines 48-59, one turn of the loop: the list iterator yields the element
\* at its index, send_text is awaited and returns or raises
Deliver ==
    /\ pending > 0
    /\ fanout.cursor < Len(active_connections)
    /\ \E ok \in BOOLEAN :
          LET to == active_connections[fanout.cursor + 1]
              f  == [fanout EXCEPT !.cursor = @ + 1,
                                   !.sends = Append(@, [to |-> to, ok |-> ok])]
          IN  IF ok \/ OnSendFailure = "pass"
              THEN fanout' = f /\ delivered' = <<>> /\ UNCHANGED pending
              ELSE FanOutEnds(f)
    /\ UNCHANGED <<jobVars, taskVars, histVars, subVars, callVars>>

\* line 48 when the iterator's index has reached the end of the list
FanOutDone ==
    /\ pending > 0
    /\ fanout.cursor >= Len(active_connections)
    /\ FanOutEnds(fanout)
    /\ UNCHANGED <<jobVars, taskVars, histVars, subVars, callVars>>

\* lines 1088-1089: a websocket is accepted and appended
Connect(s) ==
    /\ s \notin joined
    /\ active_connections' = Append(active_connections, s)
    /\ joined' = joined \cup {s}
    /\ fanout' = IF pending > 0 THEN [fanout EXCEPT !.quiet = FALSE] ELSE fanout
    /\ UNCHANGED <<jobVars, taskVars, histVars, pending, delivered, callVars>>

\* lines 1094-1096: receive_text raises WebSocketDisconnect
Disconnect(s) ==
    /\ \E i \in 1..Len(active_connections) : active_connections[i] = s
    /\ active_connections' = Remove(active_connections, s)
    /\ fanout' = IF pending > 0
                 THEN [fanout EXCEPT !.quiet = FALSE, !.listeners = @ \ {s}]
                 ELSE fanout
    /\ UNCHANGED <<jobVars, taskVars, histVars, joined, pending, delivered,
                   callVars>>

InitBroadcast ==
    /\ JobInit
    /\ NoSubscribers
    /\ keyword_ok \in BOOLEAN
    /\ max_pages \in 0..LivePages
    /\ arg = <<>>
    /\ out = NoOut

\* the steps of the task of crawl_danawa
TaskNext ==
    \/ Next
    \/ Deliver
    \/ FanOutDone

NextBroadcast ==
    \/ TaskNext
    \/ \E s \in Subscribers : Connect(s)
    \/ \E s \in Subscribers : Disconnect(s)

SpecBroadcast == InitBroadcast /\ [][NextBroadcast]_vars

\* the event loop resumes the task whenever it can run: a send_text and a
\* fetch return or raise
SpecLive == SpecBroadcast /\ WF_vars(TaskNext)

-----------------------------------------------------------------------------
(* The extraction functions called on their own: arg is the argument, out   *)
(* the function applied (fn) and what it returned (val).                    *)

\* the job untouched: no crawl runs while a function is called on its own
CallInit(args) ==
    /\ JobInit
    /\ NoSubscribers
    /\ keyword_ok = TRUE
    /\ max_pages = 0
    /\ arg \in args
    /\ out = NoOut

Call(fn, val) ==
    /\ out.fn = "none"
    /\ out' = [fn |-> fn, val |-> val]
    /\ UNCHANGED <<arg, crawlVars>>

\* ---- clean_name on every short text over CleanAlphabet and on the texts
\* of the elements
CleanAlphabet == {"[", "]", "STAR", "k_teuk", "k_ga", " "}

CleanInputs ==
    SeqsUpTo(CleanAlphabet, MaxNameLen)
    \cup {TextChair, TextStar3, TextPromo2, TextShort, TextStars, TextPlain,
          TextLink, TextLinkWon, TextEntity}

CallCleanName == Call("clean_name", <<clean_name(arg)>>)

\* clean_name applied to its own result
CallCleanNameAgain ==
    /\ out.fn = "clean_name"
    /\ out' = [fn |-> "clean_name_again",
               val |-> <<out.val[1], clean_name(out.val[1])>>]
    /\ UNCHANGED <<arg, crawlVars>>

InitClean == CallInit(CleanInputs)
NextClean == CallCleanName \/ CallCleanNameAgain
SpecClean == InitClean /\ [][NextClean]_vars

\* ---- the extractors of one listing node
CallGetProductName == Call("get_product_name", get_product_name(arg))
CallGetPrice == Call("get_price", get_price(arg))
CallGetProductUrl == Call("get_product_url", get_product_url(arg))
CallExtractSingleProduct ==
    Call("extract_single_product", extract_single_product(arg))

InitItem == CallInit(Items)
NextItem ==
    \/ CallGetProductName
    \/ CallGetPrice
    \/ CallGetProductUrl
    \/ CallExtractSingleProduct
SpecItem == InitItem /\ [][NextItem]_vars

\* ---- extract_products_from_page on a page
CallLocateItems == Call("locate_items", LocateItems(arg))
CallExtractProductsFromPage ==
    Call("extract_products_from_page", extract_products_from_page(arg))

InitPage == CallInit(Soups)
NextPage == CallLocateItems \/ CallExtractProductsFromPage
SpecPage == InitPage /\ [][NextPage]_vars

-----------------------------------------------------------------------------
(* Properties of the crawl (specification Spec).                            *)

FirstN(s, n) == SubSeq(s, 1, Min({Len(s), n}))

\* the nodes of the highest-priority selector that selects any node of soup
FirstSelectorNodes(soup) ==
    LET hits == {n \in 1..Len(ListSelectors) : Select(soup, ListSelectors[n]) # <<>>}
    IN  IF hits = {} THEN <<>> ELSE Select(soup, ListSelectors[Min(hits)])

\* the records of the accepted nodes among nodes, in node order
RecordsOf(nodes) ==
    Flatten([i \in 1..Len(nodes) |->
                IF nodes[i].raises THEN <<>> ELSE extract_single_product(nodes[i])])

\* every accepted record of a page / those of its first 50 nodes, at most 40
PageRecordsAll(soup) == RecordsOf(FirstSelectorNodes(soup))
PageRecordsCapped(soup) == FirstN(RecordsOf(FirstN(FirstSelectorNodes(soup), 50)), 40)

\* the records the pages of ts gave to the loop, in page order
Gathered(ts) == Flatten([j \in 1..Len(ts) |-> ts[j].got])

PageStages == {"fetch", "decode", "parse", "extract"}

\* page k of the run was fetched and gave no listing node
ZeroNodes(k) ==
    /\ turns[k].outcome = "halt"
    /\ FirstSelectorNodes(Soup(turns[k].response.soup)) = <<>>

\* the response was not 200, or its decoded body is shorter than 1000
IsSkipResponse(r) ==
    /\ r.exc # "fetch"
    /\ \/ r.status_code # 200
       \/ r.exc # "decode" /\ r.html_length < 1000

C4_PageSkipContinues ==
    /\ \A k \in 1..Len(turns) :
          IsSkipResponse(turns[k].response) =>
              /\ turns[k].outcome = "skip"
              /\ turns[k].got = <<>>
              /\ k < max_pages =>
                    IF Len(fetched) = k
                    THEN pc \in {"page_begin", "request"} /\ page = k + 1
                    ELSE fetched[k + 1] = k + 1
    /\ products = Gathered(turns)
    /\ pc = "done" /\ status = "completed" => returned = Gathered(turns)

C4_Witness ==
    /\ pc = "done"
    /\ status = "completed"
    /\ Len(turns) = 3
    /\ turns[1].got # <<>>
    /\ IsSkipResponse(turns[2].response)
    /\ turns[3].got # <<>>
    /\ returned = turns[1].got \o turns[3].got

\* C9 as stated: the result is the concatenation, in page order, of every
\* accepted record of each completed page in node order, nothing dropped.
C9_AggregationKeepsEveryRecord ==
    pc = "done" =>
        returned = Flatten([j \in 1..Len(turns) |->
                        IF turns[j].outcome = "extend"
                        THEN PageRecordsAll(Soup(turns[j].response.soup))
                        ELSE <<>>])

\* C9 amended: the result is the concatenation, in page order, of the
\* accepted records of each completed page in node order, where a page gives
\* the records of its first 50 listing nodes and at most the first 40 of
\* them; nothing else is dropped, reordered or deduplicated.
C9_AggregationInPageAndNodeOrder ==
    pc = "done" =>
        /\ returned = Flatten([j \in 1..Len(turns) |->
                          IF turns[j].outcome = "extend"
                          THEN PageRecordsCapped(Soup(turns[j].response.soup))
                          ELSE <<>>])
        /\ results = returned

C9_Witness ==
    /\ pc = "done"
    /\ Len(turns) = 2
    /\ turns[1].response.soup = "five"
    /\ turns[2].response.soup = "five"
    /\ Len(Soup("five")) = 5
    /\ Len(returned) = 6
    /\ SubSeq(returned, 1, 3) = SubSeq(returned, 4, 6)
    /\ returned[1] # returned[2]

\* the terminal statuses
Terminal == {"completed", "failed", "errored"}

\* the status moves only pending -> running -> a terminal status
LegalMove ==
    status' # status =>
        \/ status = "pending" /\ status' = "running"
        \/ status = "running" /\ status' \in Terminal

\* C11 as stated: the status moves only pending -> running -> one of the
\* terminal statuses, and once a terminal status has been reached no field
\* of the job (status, counters, results) is assigned again.
C11_NoMutationAfterTerminal ==
    [][LegalMove /\ (status \in Terminal => UNCHANGED jobVars)]_vars

\* C11 amended: the status moves only pending -> running -> one of the
\* terminal statuses.  When the status becomes completed (line 76), results
\* is still assigned once, by the next statement (line 77) and before the
\* task can be suspended; apart from that assignment no field of the job is
\* assigned after a terminal status has been reached, and none at all once
\* crawl_danawa has returned.
C11_LifecycleSettlesAtReturn ==
    [][/\ LegalMove
       /\ status \in Terminal =>
             \/ UNCHANGED jobVars
             \/ /\ pc = "completing" /\ status = "completed"
                /\ results = <<>> /\ results' = products
                /\ UNCHANGED <<status, progress, total_items, current_item>>
       /\ pc = "done" => UNCHANGED jobVars]_vars

C11_Witness ==
    /\ pc = "done"
    /\ status = "completed"
    /\ results # <<>>
    /\ total_items = Len(results)
    /\ Len(messages) > 0
    /\ messages[Len(messages)].status = "completed"

\* C14 as stated: between any two consecutive page fetches of a crawl the
\* loop pauses once, and it does not pause after page max_pages.
C14_PauseBetweenFetches ==
    /\ \A i \in 1..Len(fetched) - 1 :
          Cardinality({j \in 1..Len(pauses) : pauses[j] = fetched[i]}) = 1
    /\ \A j \in 1..Len(pauses) : pauses[j] # max_pages

EmptyPages == {n \in SoupNames : PageRecordsCapped(Soup(n)) = <<>>}

\* page k was fetched with status 200 and a body of at least 1000
\* characters, nothing raised, and none of its nodes gave a record
EmptyPage(k) ==
    /\ turns[k].response.exc = "none"
    /\ turns[k].response.status_code = 200
    /\ turns[k].response.html_length >= 1000
    /\ turns[k].response.soup \in EmptyPages

\* C16: the loop stops at the first page that was fetched with status 200
\* and a body of at least 1000 characters but gave no accepted record,
\* whether it has no listing node or only rejected ones: no page after it is
\* requested and the records accumulated so far are returned.
C16_HaltOnEmptyPage ==
    \A k \in 1..Len(turns) :
        EmptyPage(k) =>
            /\ turns[k].outcome = "halt"
            /\ Len(turns) = k
            /\ fetched = [i \in 1..k |-> i]
            /\ products = Gathered(SubSeq(turns, 1, k - 1))
            /\ pc \in {"collected", "completing", "done"}
            /\ pc = "done" => returned = products

C16_Witness ==
    /\ pc = "done"
    /\ max_pages = 3
    /\ Len(turns) = 2
    /\ EmptyPage(2)
    /\ FirstSelectorNodes(Soup(turns[2].response.soup)) # <<>>
    /\ turns[1].got # <<>>
    /\ returned = turns[1].got

-----------------------------------------------------------------------------
(* Properties of the crawl with subscribers (SpecBroadcast, SpecLive).      *)

\* the subscribers a loop of notify_progress sent to, in the order of the sends
SentTo(f) == [i \in 1..Len(f.sends) |-> f.sends[i].to]

\* the sends of the loop in hand (or just left) after a step
SendsAfter == IF delivered' # <<>> THEN delivered'[1].fan.sends ELSE fanout'.sends

\* the step is a send_text that raised
SendFails ==
    /\ pending > 0
    /\ Len(SendsAfter) = Len(fanout.sends) + 1
    /\ ~SendsAfter[Len(SendsAfter)].ok

\* C12: a send that fails changes nothing of the crawl (the job's fields,
\* the page loop, the records, no exception is recorded), and a message
\* whose fan-out no connect or disconnect disturbed has been sent to every
\* subscriber of the list exactly once, in list order, whichever sends failed.
C12_SendFailureIsolated ==
    [][/\ SendFails => UNCHANGED <<jobVars, taskVars, histVars>>
       /\ (delivered' # <<>> /\ delivered'[1].fan.quiet) =>
              SentTo(delivered'[1].fan) = delivered'[1].fan.members]_vars

C12_Witness ==
    /\ delivered # <<>>
    /\ delivered[1].fan.quiet
    /\ Len(delivered[1].fan.members) = 2
    /\ ~delivered[1].fan.sends[1].ok
    /\ delivered[1].fan.sends[2].ok
    /\ delivered[1].fan.sends[2].to = delivered[1].fan.members[2]
    /\ pc = "done"
    /\ status = "completed"

\* C13 as stated: whatever connects or disconnects while a message is fanned
\* out, every subscriber that is on the list for the whole of the fan-out is
\* sent the message exactly once.
C13_FanOutExactlyOnce ==
    delivered # <<>> =>
        \A s \in delivered[1].fan.listeners :
            Cardinality({i \in 1..Len(delivered[1].fan.sends) :
                            delivered[1].fan.sends[i].to = s}) = 1

\* C17: wherever another task or a poll can observe the job (the task is
\* not between lines 76 and 77, where nothing suspends it), the status is
\* completed exactly when the results are not empty, and then total_items is
\* their number; in every other status the results are empty.
C17_StatusResultConsistency ==
    pc # "completing" =>
        /\ status = "completed" <=> results # <<>>
        /\ status = "completed" => total_items = Len(results)
        /\ status \in {"pending", "running", "failed", "errored"} => results = <<>>

C17_Witness ==
    /\ pending > 0
    /\ fanout.cursor = 1
    /\ Len(active_connections) = 2
    /\ status = "completed"
    /\ results # <<>>
    /\ total_items = Len(results)

\* C18: every started crawl eventually reaches a terminal status, whatever
\* the pages answer and whichever sends fail.
C18_Termination == (status = "running") ~> (status \in Terminal)

C18_Witness ==
    /\ pc = "done"
    /\ status \in Terminal
    /\ pending = 0
    /\ Len(fetched) = max_pages
    /\ max_pages > 0
    /\ delivered # <<>>
    /\ \E i \in 1..Len(delivered[1].fan.sends) : ~delivered[1].fan.sends[i].ok

-----------------------------------------------------------------------------
(* Properties of the extractors of one listing node (specification          *)
(* SpecItem).                                                               *)

\* C5: extract_single_product emits a record if and only if the cleaned,
\* trimmed name is longer than 3 characters and the price is greater than 0.
C5_AcceptanceRule ==
    out.fn = "extract_single_product" =>
        LET name == get_product_name(arg)
        IN  (out.val # None) <=>
                /\ name # None
                /\ Len(Strip(name[1])) > 3
                /\ get_price(arg) > 0

\* C6: get_price returns 0 or a price from 1000 to 10000000, so the price of
\* every record is in that range; 500 is rejected (the record is dropped) and
\* 999999 is accepted.
C6_PriceRange ==
    /\ out.fn = "get_price" =>
          /\ out.val = 0 \/ (1000 <= out.val /\ out.val <= 10000000)
          /\ arg.elems = <<Price500>> => out.val = 0
          /\ arg.elems = <<Price999999>> => out.val = 999999
    /\ out.fn = "extract_single_product" =>
          /\ out.val # None =>
                1000 <= out.val[1].price /\ out.val[1].price <= 10000000
          /\ arg.elems = <<NameChair, Price500>> => out.val = None
          /\ arg.elems = <<NameChair, Price999999>> =>
                out.val # None /\ out.val[1].price = 999999

C6_Witness ==
    /\ out.fn = "extract_single_product"
    /\ out.val # None
    /\ out.val[1].price = 10000000
    /\ get_price([arg EXCEPT !.elems = <<Price500>>]) = 0

\* the candidates of get_product_url, in order: the first match of each
\* selector that has one
UrlCandidates(item) ==
    Flatten([n \in 1..Len(UrlSelectors) |-> SelectOne(item, UrlSelectors[n])])

-----------------------------------------------------------------------------
(* Properties of clean_name (specification SpecClean).                      *)

\* C7: clean_name applied to its own result returns that result.
C7_CleanNameIdempotent ==
    out.fn = "clean_name_again" => out.val[2] = out.val[1]

-----------------------------------------------------------------------------
(* Properties of extract_products_from_page (specification SpecPage).       *)

\* C10: the nodes are those of the first selector, in priority order, that
\* selects any node; a page that a higher and a lower selector both match
\* gives only the higher one's nodes, and no nodes are used when no selector
\* matches.
C10_SelectorPriority ==
    LET hits == {n \in 1..6 : Select(arg, ListSelectors[n]) # <<>>}
    IN  /\ out.fn = "locate_items" =>
              IF hits = {} THEN out.val = <<>>
              ELSE /\ out.val = Select(arg, ListSelectors[Min(hits)])
                   /\ \A i \in 1..Len(out.val) :
                          Matches(ListSelectors[Min(hits)], out.val[i])
        /\ out.fn = "extract_products_from_page" =>
              IF hits = {} THEN out.val = <<>>
              ELSE out.val = FirstN(RecordsOf(FirstN(
                                 Select(arg, ListSelectors[Min(hits)]), 50)), 40)

\* a page with a node only a lower selector matches and a node a higher one
\* matches: only the latter is used
C10_Witness ==
    /\ out.fn = "locate_items"
    /\ Len(arg) = 2
    /\ Select(arg, ".item_wrap") = <<arg[1]>>
    /\ Select(arg, ".prod_list li") = <<arg[2]>>
    /\ out.val = <<arg[2]>>

====
